---- MODULE Spec2Model ----
(***************************************************************************)
(* Leaderboard read-through cache of the SantaLocalhost backend            *)
(* (src/tests/k6/load_test.js, lines 366-663: the Express server with the  *)
(* Redis cache store and the MongoDB document store), and the server       *)
(* without a cache (src/backend/index.ts).                                 *)
(*                                                                         *)
(* Every await of a handler is a step boundary: a store command is issued  *)
(* by one step and its reply is consumed by the next, and the command      *)
(* takes effect on the store at the step that consumes the reply.          *)
(***************************************************************************)
EXTENDS Integers, Sequences, FiniteSets, TLC

\* ------------------------------------------------------------------ bounds
NumReads   == 2      \* leaderboard read requests of a behaviour
NumWrites  == 1      \* score submissions of a behaviour
NumFillers == 100    \* records persisted before the server started
TimeStep   == 200    \* seconds one tick of the clock advances
NumQuestions == 2    \* question requests of a behaviour

\* ------------------------------------------------------- program constants
CACHE_DURATION == 300
LIMIT          == 100
QUESTIONS_TTL  == 3600

Reads  == 1..NumReads
Writes == 1..NumWrites
Questions == 1..NumQuestions

Min(a, b) == IF a < b THEN a ELSE b

\* ------------------------------------------------------------------ values
Absent  == "<undefined>"           \* a string field the request body does not carry
NoScore == -1                      \* a request body without a score

\* request bodies of POST /api/scan-results
Bodies ==
  { [name |-> "Alice", verdict |-> "NICE",    message |-> "m", score |-> 80],
    [name |-> "Bob",   verdict |-> "NAUGHTY", message |-> "m", score |-> 0],
    [name |-> "Eve",   verdict |-> "MAYBE",   message |-> "m", score |-> 80],
    [name |-> Absent,  verdict |-> "NICE",    message |-> "m", score |-> 80] }

NoBody == [name |-> Absent, verdict |-> Absent, message |-> Absent, score |-> NoScore]

NoDoc == [id |-> 0, name |-> Absent, verdict |-> Absent, message |-> Absent, score |-> 0]

\* the documents the store holds when the server starts, best score first
Filler(i) == [id |-> i, name |-> "f", verdict |-> "NICE", message |-> "m",
              score |-> (NumFillers + 1 - i) % 101]
Fillers   == [i \in 1..NumFillers |-> Filler(i)]

\* the ScanResult collection: the documents of before, then those inserted
\* since; the _id of a document is its position
Collection(inserted) == Fillers \o inserted

\* scanResultSchema: name, verdict and score are required, verdict is an enum
Validates(body) ==
  /\ body.name # Absent
  /\ body.verdict \in {"NAUGHTY", "NICE"}
  /\ body.score # NoScore

\* new ScanResult(req.body) once saved, with the _id the store assigned
NewDoc(body, docs) ==
  [id |-> Len(docs) + 1, name |-> body.name, verdict |-> body.verdict,
   message |-> body.message, score |-> body.score]

\* .select('name score verdict country timestamp'): message is dropped
Select(doc) ==
  [id |-> doc.id, name |-> doc.name, verdict |-> doc.verdict, score |-> doc.score]

\* .sort({ score: -1 }): descending score; the order of equal scores is the
\* store's choice (insertion order or its reverse, by the index it scans)
SortsBefore(a, b, tie) ==
  \/ a.score > b.score
  \/ /\ a.score = b.score
     /\ IF tie = "asc" THEN a.id < b.id ELSE a.id > b.id

FindUnlimited(docs, tie) ==
  LET sorted == SortSeq(docs, LAMBDA a, b : SortsBefore(a, b, tie))
  IN  [i \in 1..Len(sorted) |-> sorted[i].id]

\* ScanResult.find().select(..).sort({ score: -1 }).limit(100).lean().exec()
\* A document never changes once persisted (there is no update or delete),
\* so the result lists the documents by _id; Entry gives the selected fields.
Find(docs, tie) ==
  LET sorted == SortSeq(docs, LAMBDA a, b : SortsBefore(a, b, tie))
  IN  [i \in 1..Min(Len(sorted), LIMIT) |-> sorted[i].id]

\* responseData of getLeaderboard
ResponseData(leaderboard) ==
  [data |-> leaderboard,
   metadata |-> [total |-> Len(leaderboard), source |-> "database"]]

NoPayload == [data |-> << >>, metadata |-> [total |-> 0, source |-> ""]]

\* JSON.stringify and JSON.parse: a text and the value it denotes
Stringify(value) == [json |-> value]
Parse(text) == text.json

NoText == Stringify(NoPayload)

\* ----------------------------------------------------------------- state
VARIABLES
  db,            \* the documents inserted since the server started, in order
  cache,         \* the Redis entry under `v1:leaderboard`
  redisClient,   \* "null" or "client"
  redisHealthy,  \* the process-wide health flag
  rd,            \* the leaderboard read requests
  wr,            \* the score submissions
  log,           \* what was written to console.error, as counters
  qs,            \* the question requests
  qkey           \* the Redis entry under `v1:questions`

vars == <<db, cache, redisClient, redisHealthy, rd, wr, log, qs, qkey>>

\* the leaderboard entry of the document with this _id
Entry(id) == Select(Collection(db)[id])

\* the Redis entry: none, a JSON text, or a text that is not JSON; ttl is the
\* time the key has left to live, in seconds
NoExpiry       == -1
NoEntry        == [kind |-> "none", text |-> NoText, ttl |-> NoExpiry]
GarbageEntry   == [kind |-> "garbage", text |-> NoText, ttl |-> NoExpiry]

SetExNoExpiry(text, ttl) == [kind |-> "json", text |-> text, ttl |-> NoExpiry]
SetExEmpty(text, ttl) == [kind |-> "json", text |-> NoText, ttl |-> ttl]

\* redisClient.setEx(key, ttl, text)
SetEx(text, ttl) == [kind |-> "json", text |-> text, ttl |-> ttl]

\* what the key can hold when the server starts: nothing, a text that is not
\* JSON, or the payload an earlier run of the server cached
WarmEntry == SetEx(Stringify(ResponseData(Find(Fillers, "asc"))), CACHE_DURATION)

\* the entry after some seconds: gone once its time-to-live is over
Aged(entry, seconds) ==
  IF entry.ttl = NoExpiry THEN entry
  ELSE IF entry.ttl > seconds THEN [entry EXCEPT !.ttl = @ - seconds]
  ELSE NoEntry

\* redisClient?.isOpen: nothing in the program closes the client
IsOpen(client) == client # "null"

AvailableIgnoringHealth(client, healthy) == IsOpen(client)

\* redisClient?.isOpen && redisHealthy
Available(client, healthy) == IsOpen(client) /\ healthy

\* ------------------------------------------------------------ requests
IdleRead ==
  [pc |-> "idle", cacheStatus |-> "", responseData |-> NoPayload,
   status |-> 0, xcache |-> "", body |-> NoText,
   \* history of the request, read by the properties only
   gets |-> 0, finds |-> 0, sets |-> 0, refreshes |-> 0,
   cacheFailed |-> FALSE, findFailed |-> FALSE,
   bypass |-> FALSE, solo |-> TRUE, late |-> {}]

IdleWrite ==
  [pc |-> "idle", reqBody |-> NoBody, doc |-> NoDoc, status |-> 0, body |-> NoDoc,
   \* history of the request, read by the properties only
   saved |-> FALSE, dels |-> 0, deleted |-> FALSE, delFailed |-> FALSE,
   age |-> 0, quiet |-> FALSE, nextRead |-> 0, staleSet |-> FALSE]

\* a GET /api/questions request
IdleQuestions == [pc |-> "idle", status |-> 0, xcache |-> "", body |-> NoText]

NoLog == [cache |-> 0, refresh |-> 0, error |-> 0]

InFlight(r) == rd[r].pc \notin {"idle", "done"}

\* the cache store cannot be used: no client, or the health flag is down
Unavailable == redisClient = "null" \/ ~redisHealthy

Init ==
  /\ db = << >>
  /\ cache \in {NoEntry, GarbageEntry, WarmEntry}
  /\ \E connected \in BOOLEAN :         \* setupRedis: connect() resolved or threw
       /\ redisClient = IF connected THEN "client" ELSE "null"
       /\ redisHealthy = connected
  /\ rd = [r \in Reads |-> IdleRead]
  /\ wr = [w \in Writes |-> IdleWrite]
  /\ log = NoLog
  /\ qs = [q \in Questions |-> IdleQuestions]
  /\ qkey = NoEntry

\* ------------------------------------------------- GET /api/leaderboard
\* getLeaderboard runs up to its first await: the find() is issued
ToGetLeaderboard(q) == [q EXCEPT !.cacheStatus = "MISS", !.pc = "find", !.finds = @ + 1]

\* res.json(value) with the given X-Cache header
Respond(q, status, xcache, value) ==
  [q EXCEPT !.pc = "done", !.status = status, !.xcache = xcache,
            !.body = Stringify(value), !.responseData = NoPayload]

\* errorHandler: 500 with an error object, no X-Cache header
RespondError(q) == [q EXCEPT !.pc = "done", !.status = 500, !.responseData = NoPayload]

NoRefresh(q) == q

\* the detached refresh of a hit: one attempt per hit
StartRefresh(q) == [q EXCEPT !.refreshes = @ + 1]

HitAfterFind(q, parsedData) ==
  Respond([q EXCEPT !.finds = @ + 1], 200, "HIT", ResponseData(Find(Collection(db), "asc")))

\* the hit branch of enhancedCache: the payload read from the cache is sent
HitTaggedMiss(q, parsedData) == Respond(q, 200, "MISS", parsedData)
Hit(q, parsedData) == Respond(q, 200, "HIT", parsedData)

\* trackPerformance, then enhancedCache up to its first await
ReadStart(r) ==
  /\ rd[r].pc = "idle"
  /\ r > 1 => rd[r - 1].pc # "idle"
  /\ LET alone == \A o \in Reads : ~InFlight(o)
         q == [rd[r] EXCEPT !.solo = alone, !.bypass = Unavailable,
                 !.late = {w \in Writes : /\ wr[w].pc = "done" /\ wr[w].status = 201
                                          /\ wr[w].age > CACHE_DURATION}]
         others == [o \in Reads |-> IF InFlight(o) THEN [rd[o] EXCEPT !.solo = FALSE] ELSE rd[o]]
     IN  rd' = [others EXCEPT ![r] =
                  IF Available(redisClient, redisHealthy)
                    THEN [q EXCEPT !.pc = "get", !.gets = @ + 1]
                    ELSE ToGetLeaderboard(q)]
  /\ wr' = [w \in Writes |->
              IF wr[w].pc = "done" /\ wr[w].status = 201 /\ wr[w].nextRead = 0
                THEN [wr[w] EXCEPT !.nextRead = r] ELSE wr[w]]
  /\ UNCHANGED <<db, cache, redisClient, redisHealthy, log, qs, qkey>>

\* enhancedCache after `await redisClient.get(cacheKey)`
GetReply(r) ==
  /\ rd[r].pc = "get"
  /\ \E threw \in BOOLEAN :
       IF threw \/ cache.kind = "garbage"
         THEN \* the get rejected or JSON.parse threw: catch, log, next()
              /\ rd' = [rd EXCEPT ![r] = ToGetLeaderboard([@ EXCEPT !.cacheFailed = TRUE])]
              /\ log' = [log EXCEPT !.cache = @ + 1]
         ELSE IF cache.kind = "json"
           THEN \* hit: fetchFreshData is not defined, so the refresh throws a
                \* ReferenceError at once, which its own catch logs
                /\ rd' = [rd EXCEPT ![r] = Hit(StartRefresh(@), Parse(cache.text))]
                /\ log' = [log EXCEPT !.refresh = @ + 1]
           ELSE /\ rd' = [rd EXCEPT ![r] = ToGetLeaderboard(@)]
                /\ log' = log
  /\ UNCHANGED <<db, cache, redisClient, redisHealthy, wr, qs, qkey>>

FindFailedAnswersEmpty(q) == Respond([q EXCEPT !.findFailed = TRUE], 200, "MISS", NoPayload)

\* the catch of getLeaderboard when the query rejected: next(error)
FindFailed(q) == RespondError([q EXCEPT !.findFailed = TRUE])

\* getLeaderboard after `await ScanResult.find()...exec()`
FindReply(r) ==
  /\ rd[r].pc = "find"
  /\ \/ /\ rd' = [rd EXCEPT ![r] = FindFailed(@)]
        /\ log' = [log EXCEPT !.error = @ + 1]
     \/ /\ \E tie \in {"asc", "desc"} :
             LET responseData == ResponseData(Find(Collection(db), tie))
                 q == [rd[r] EXCEPT !.responseData = responseData]
             IN  rd' = [rd EXCEPT ![r] =
                          IF Available(redisClient, redisHealthy)
                            THEN [q EXCEPT !.pc = "setEx", !.sets = @ + 1]
                            ELSE Respond(q, 200, "MISS", responseData)]
        /\ log' = log
  /\ UNCHANGED <<db, cache, redisClient, redisHealthy, wr, qs, qkey>>

\* does the payload show the document, or is it full of documents that score
\* at least as high
Reflects(payload, doc) ==
  \/ \E i \in 1..Len(payload.data) : payload.data[i] = doc.id
  \/ /\ Len(payload.data) = LIMIT
     /\ Entry(payload.data[LIMIT]).score >= doc.score

\* getLeaderboard after `await redisClient.setEx(...)`
SetExReply(r) ==
  /\ rd[r].pc = "setEx"
  /\ \/ \* the set rejected: the catch of getLeaderboard calls next(error)
        /\ rd' = [rd EXCEPT ![r] = RespondError([@ EXCEPT !.cacheFailed = TRUE])]
        /\ log' = [log EXCEPT !.error = @ + 1]
        /\ UNCHANGED <<cache, wr>>
     \/ /\ cache' = SetEx(Stringify(rd[r].responseData), CACHE_DURATION)
        /\ rd' = [rd EXCEPT ![r] = Respond(@, 200, "MISS", rd[r].responseData)]
        /\ wr' = [w \in Writes |->
                    IF wr[w].saved /\ ~Reflects(rd[r].responseData, wr[w].doc)
                      THEN [wr[w] EXCEPT !.staleSet = TRUE] ELSE wr[w]]
        /\ log' = log
  /\ UNCHANGED <<db, redisClient, redisHealthy, qs, qkey>>

\* ----------------------------------------------- POST /api/scan-results
Finish(s, status, value) ==
  [s EXCEPT !.pc = "done", !.status = status, !.body = value,
            !.quiet = \A r \in Reads : ~InFlight(r)]

\* res.status(201).json(scanResult)
Created(s) == Finish(s, 201, s.doc)

\* next(error), then errorHandler: 500 with an error object
Failed(s) == Finish(s, 500, NoDoc)

\* postScanResults up to `await scanResult.save()`
WriteStart(w) ==
  /\ wr[w].pc = "idle"
  /\ w > 1 => wr[w - 1].pc # "idle"
  /\ \E body \in Bodies : wr' = [wr EXCEPT ![w] = [@ EXCEPT !.pc = "save", !.reqBody = body]]
  /\ UNCHANGED <<db, cache, redisClient, redisHealthy, rd, log, qs, qkey>>

\* postScanResults after `await scanResult.save()`
SaveReply(w) ==
  /\ wr[w].pc = "save"
  /\ \E stored \in BOOLEAN :
       IF stored /\ Validates(wr[w].reqBody)
         THEN LET doc == NewDoc(wr[w].reqBody, Collection(db))
                  s == [wr[w] EXCEPT !.doc = doc, !.saved = TRUE]
              IN  /\ db' = Append(db, doc)
                  /\ wr' = [wr EXCEPT ![w] =
                              IF Available(redisClient, redisHealthy)
                                THEN [s EXCEPT !.pc = "del", !.dels = @ + 1]
                                ELSE Created(s)]
                  /\ log' = log
         ELSE \* validation failed or the store rejected the insert
              /\ wr' = [wr EXCEPT ![w] = Failed(@)]
              /\ log' = [log EXCEPT !.error = @ + 1]
              /\ db' = db
  /\ UNCHANGED <<cache, redisClient, redisHealthy, rd, qs, qkey>>

DelKeepsEntry(entry) == entry

\* redisClient.del(key)
Del(entry) == NoEntry

\* postScanResults after `await redisClient.del(...)`
DelReply(w) ==
  /\ wr[w].pc = "del"
  /\ \/ \* the del rejected: the catch calls next(error)
        /\ wr' = [wr EXCEPT ![w] = Failed([@ EXCEPT !.delFailed = TRUE])]
        /\ log' = [log EXCEPT !.error = @ + 1]
        /\ cache' = cache
     \/ /\ cache' = Del(cache)
        /\ wr' = [wr EXCEPT ![w] = Created([@ EXCEPT !.deleted = TRUE])]
        /\ log' = log
  /\ UNCHANGED <<db, redisClient, redisHealthy, rd, qs, qkey>>

\* --------------------------------------------------- the Redis client
\* client.on('error')
RedisError ==
  /\ redisHealthy' = FALSE
  /\ UNCHANGED <<db, cache, redisClient, rd, wr, log, qs, qkey>>

\* client.on('reconnecting')
RedisReconnecting ==
  /\ redisHealthy' = FALSE
  /\ UNCHANGED <<db, cache, redisClient, rd, wr, log, qs, qkey>>

\* client.on('ready'): the flag follows the outcome of the ping
RedisReady ==
  /\ \E pong \in BOOLEAN :
       /\ redisHealthy' = pong
       /\ rd' = [r \in Reads |->
                   IF InFlight(r) /\ redisClient # "null" /\ pong
                     THEN [rd[r] EXCEPT !.bypass = FALSE] ELSE rd[r]]
  /\ UNCHANGED <<db, cache, redisClient, wr, log, qs, qkey>>

\* ------------------------------------------------------------- the clock
\* TimeStep seconds pass: the key's time-to-live runs down, and a finished
\* submission gets older (its age is not counted beyond the fresh duration)
Tick ==
  /\ cache' = Aged(cache, TimeStep)
  /\ qkey' = Aged(qkey, TimeStep)
  /\ wr' = [w \in Writes |->
              IF wr[w].pc = "done" /\ wr[w].age <= CACHE_DURATION
                THEN [wr[w] EXCEPT !.age = @ + TimeStep] ELSE wr[w]]
  /\ UNCHANGED <<db, redisClient, redisHealthy, rd, log, qs>>

Next ==
  \/ \E r \in Reads : ReadStart(r)
  \/ \E r \in Reads : GetReply(r)
  \/ \E r \in Reads : FindReply(r)
  \/ \E r \in Reads : SetExReply(r)
  \/ \E w \in Writes : WriteStart(w)
  \/ \E w \in Writes : SaveReply(w)
  \/ \E w \in Writes : DelReply(w)
  \/ RedisError
  \/ RedisReconnecting
  \/ RedisReady
  \/ Tick

Spec == Init /\ [][Next]_vars

\* --------------------------------------------------- GET /api/questions
\* the static question set the server imports
questions == <<"q1", "q2">>

\* responseData of getQuestions
QuestionsData == [data |-> questions, metadata |-> [total |-> Len(questions)]]

\* res.json(value) of a questions request, with the given X-Cache header
Answer(q, status, xcache, value) ==
  [q EXCEPT !.pc = "done", !.status = status, !.xcache = xcache, !.body = Stringify(value)]

\* getQuestions up to its await: the setEx is issued when the cache store is
\* available, else the request is answered at once
QuestionsStart(q) ==
  /\ qs[q].pc = "idle"
  /\ q > 1 => qs[q - 1].pc # "idle"
  /\ qs' = [qs EXCEPT ![q] =
              IF Available(redisClient, redisHealthy)
                THEN [@ EXCEPT !.pc = "setEx"]
                ELSE Answer(@, 200, "MISS", QuestionsData)]
  /\ UNCHANGED <<db, cache, redisClient, redisHealthy, rd, wr, log, qkey>>

\* the setEx of getQuestions resolves or rejects. Nothing in the handler
\* catches the rejection: the router either never learns of it and the
\* request stays unanswered, or (a router that follows the promise a handler
\* returns) passes it to errorHandler.
QuestionsSetExReply(q) ==
  /\ qs[q].pc = "setEx"
  /\ \/ /\ qkey' = SetEx(Stringify(QuestionsData), QUESTIONS_TTL)
        /\ qs' = [qs EXCEPT ![q] = Answer(@, 200, "MISS", QuestionsData)]
        /\ log' = log
     \/ /\ qs' = [qs EXCEPT ![q].pc = "unanswered"]
        /\ UNCHANGED <<qkey, log>>
     \/ /\ qs' = [qs EXCEPT ![q] = [@ EXCEPT !.pc = "done", !.status = 500]]
        /\ log' = [log EXCEPT !.error = @ + 1]
        /\ qkey' = qkey
  /\ UNCHANGED <<db, cache, redisClient, redisHealthy, rd, wr>>

\* the server under question requests alone
QuestionsNext ==
  \/ \E q \in Questions : QuestionsStart(q)
  \/ \E q \in Questions : QuestionsSetExReply(q)
  \/ RedisError
  \/ RedisReconnecting
  \/ RedisReady
  \/ Tick

SpecQuestions == Init /\ [][QuestionsNext]_vars

\* ------------------------- the server without a cache (src/backend/index.ts)
BasicInit ==
  /\ db = << >>
  /\ cache = NoEntry /\ qkey = NoEntry
  /\ redisClient = "null" /\ redisHealthy = FALSE
  /\ rd = [r \in Reads |-> IdleRead]
  /\ wr = [w \in Writes |-> IdleWrite]
  /\ qs = [q \in Questions |-> IdleQuestions]
  /\ log = NoLog

\* GET /api/questions: res.json(questions)
BasicQuestions(q) ==
  /\ qs[q].pc = "idle"
  /\ q > 1 => qs[q - 1].pc # "idle"
  /\ qs' = [qs EXCEPT ![q] = Answer(@, 200, "", questions)]
  /\ UNCHANGED <<db, cache, redisClient, redisHealthy, rd, wr, log, qkey>>

\* POST /api/scan-results up to its await: new ScanResult(req.body), save()
BasicWriteStart(w) ==
  /\ wr[w].pc = "idle"
  /\ w > 1 => wr[w - 1].pc # "idle"
  /\ \E body \in Bodies : wr' = [wr EXCEPT ![w] = [@ EXCEPT !.pc = "save", !.reqBody = body]]
  /\ UNCHANGED <<db, cache, redisClient, redisHealthy, rd, log, qs, qkey>>

\* the schema of this server requires no field and lists no verdicts: save()
\* persists whatever the body carries, unless the store rejects the insert
BasicSaveReply(w) ==
  /\ wr[w].pc = "save"
  /\ \/ LET doc == NewDoc(wr[w].reqBody, Collection(db))
        IN  /\ db' = Append(db, doc)
            /\ wr' = [wr EXCEPT ![w] = Created([@ EXCEPT !.doc = doc, !.saved = TRUE])]
            /\ log' = log
     \/ /\ wr' = [wr EXCEPT ![w] = Failed(@)]
        /\ log' = [log EXCEPT !.error = @ + 1]
        /\ db' = db
  /\ UNCHANGED <<cache, redisClient, redisHealthy, rd, qs, qkey>>

\* GET /api/leaderboard up to its await: the find() is issued
BasicReadStart(r) ==
  /\ rd[r].pc = "idle"
  /\ r > 1 => rd[r - 1].pc # "idle"
  /\ rd' = [rd EXCEPT ![r] = [@ EXCEPT !.pc = "find", !.finds = @ + 1]]
  /\ UNCHANGED <<db, cache, redisClient, redisHealthy, wr, log, qs, qkey>>

\* the find() resolves and the array is the body, or it rejects and the
\* handler's own catch answers 500
BasicFindReply(r) ==
  /\ rd[r].pc = "find"
  /\ \/ /\ rd' = [rd EXCEPT ![r] = FindFailed(@)]
        /\ log' = [log EXCEPT !.error = @ + 1]
     \/ /\ \E tie \in {"asc", "desc"} :
             rd' = [rd EXCEPT ![r] = Respond(@, 200, "", Find(Collection(db), tie))]
        /\ log' = log
  /\ UNCHANGED <<db, cache, redisClient, redisHealthy, wr, qs, qkey>>

BasicNext ==
  \/ \E q \in Questions : BasicQuestions(q)
  \/ \E w \in Writes : BasicWriteStart(w)
  \/ \E w \in Writes : BasicSaveReply(w)
  \/ \E r \in Reads : BasicReadStart(r)
  \/ \E r \in Reads : BasicFindReply(r)

SpecBasic == BasicInit /\ [][BasicNext]_vars

\* ------------------------------------------------------------ properties
Done(r)    == rd[r].pc = "done"
Payload(r) == Parse(rd[r].body)

\* entries in non-increasing / strictly decreasing order of score
Descending(data) ==
  \A i \in 1..Len(data) - 1 : Entry(data[i]).score >= Entry(data[i + 1]).score
StrictlyDescending(data) ==
  \A i \in 1..Len(data) - 1 : Entry(data[i]).score > Entry(data[i + 1]).score

\* the payload is what a find() of the collection, as it was at some moment
\* since the server started, returns
FromStore(payload) ==
  \E k \in 0..Len(db) : \E tie \in {"asc", "desc"} :
    payload = ResponseData(Find(Collection(SubSeq(db, 1, k)), tie))

\* the step in which read r is answered from the cache
HitStep(r) == rd[r].pc = "get" /\ rd'[r].xcache = "HIT"

\* C1 as stated: the first leaderboard read to start after a submission was
\* answered 201 is a MISS, and its payload shows the new record in
\* descending-score order, whatever else ran in between.
C1_NextReadMissesAndShowsRecord ==
  \A w \in Writes : \A r \in Reads :
    (wr[w].nextRead = r /\ Done(r) /\ rd[r].status = 200)
      => /\ rd[r].xcache = "MISS"
         /\ Reflects(Payload(r), wr[w].doc)
         /\ Descending(Payload(r).data)

\* C1 amended: the same, for a submission that deleted the cache entry while
\* no leaderboard read was in flight, and a next read that overlaps no other
\* leaderboard read.
C1_QuietNextReadMissesAndShowsRecord ==
  \A w \in Writes : \A r \in Reads :
    (/\ wr[w].nextRead = r /\ Done(r) /\ rd[r].status = 200
     /\ wr[w].deleted /\ wr[w].quiet /\ rd[r].solo)
      => /\ rd[r].xcache = "MISS"
         /\ Reflects(Payload(r), wr[w].doc)
         /\ Descending(Payload(r).data)

C1_Witness ==
  \E w \in Writes : \E r \in Reads :
    /\ wr[w].nextRead = r /\ Done(r) /\ rd[r].status = 200
    /\ wr[w].deleted /\ wr[w].quiet /\ rd[r].solo
    /\ rd[r].xcache = "MISS" /\ rd[r].gets = 1
    /\ \E i \in 1..Len(Payload(r).data) : Payload(r).data[i] = wr[w].doc.id
    /\ \E o \in Reads : Done(o) /\ rd[o].sets = 1 /\ rd[o].status = 200 /\ o < r

\* C2 as stated: a read that starts more than CACHE_DURATION seconds after a
\* submission was answered 201 returns a payload that reflects it.
C2_LateReadReflectsWrite ==
  \A r \in Reads : \A w \in rd[r].late :
    (Done(r) /\ rd[r].status = 200) => Reflects(Payload(r), wr[w].doc)

\* C2 amended: such a read reflects the submission unless it is a HIT and a
\* request that had queried the store before the submission wrote its payload
\* into the cache after it (that entry lives CACHE_DURATION from its own write).
C2_LateReadStaleOnlyAfterStaleSet ==
  \A r \in Reads : \A w \in rd[r].late :
    (Done(r) /\ rd[r].status = 200)
      => \/ Reflects(Payload(r), wr[w].doc)
         \/ rd[r].xcache = "HIT" /\ wr[w].staleSet

C2_Witness ==
  \E r \in Reads : \E w \in rd[r].late :
    /\ Done(r) /\ rd[r].status = 200 /\ rd[r].xcache = "MISS" /\ rd[r].gets = 1
    /\ \E i \in 1..Len(Payload(r).data) : Payload(r).data[i] = wr[w].doc.id
    /\ ~wr[w].deleted

\* C3 as stated: a read during which a cache operation failed (get, parse or
\* set) is still answered 200 MISS from the store when the query succeeded.
C3_CacheFailureNeverPropagated ==
  \A r \in Reads :
    (Done(r) /\ rd[r].cacheFailed /\ ~rd[r].findFailed)
      => rd[r].status = 200 /\ rd[r].xcache = "MISS" /\ rd[r].finds = 1

\* C4: a read during which the cache store was unavailable throughout issues
\* no cache command, queries the store once, and is answered 200 MISS with the
\* store's result, or 500 only because the query failed.
C4_UnavailableCacheIsBypassed ==
  \A r \in Reads :
    (Done(r) /\ rd[r].bypass)
      => /\ rd[r].gets = 0 /\ rd[r].sets = 0 /\ rd[r].finds = 1
         /\ ~rd[r].cacheFailed
         /\ \/ rd[r].status = 200 /\ rd[r].xcache = "MISS" /\ FromStore(Payload(r))
            \/ rd[r].status = 500 /\ rd[r].findFailed

C4_Witness ==
  \E r \in Reads :
    /\ Done(r) /\ rd[r].bypass /\ rd[r].status = 200 /\ redisClient # "null"
    /\ \E o \in Reads : rd[o].gets = 1

\* C5: the step that answers a hit sends 200 HIT with the text read from the
\* cache, has issued no store query for the request, and its refresh leaves
\* the stores alone: the failure of the refresh is one more log line.
C5_HitAnswersFromCacheAlone ==
  [][\A r \in Reads : HitStep(r) =>
        /\ rd'[r].pc = "done" /\ rd'[r].status = 200
        /\ rd'[r].body = cache.text
        /\ rd'[r].finds = 0
        /\ cache' = cache /\ db' = db
        /\ log' = [log EXCEPT !.refresh = @ + 1]]_vars

C5_Witness ==
  \E r \in Reads : Done(r) /\ rd[r].xcache = "HIT" /\ db # << >> /\ log.refresh > 0

\* C6: a read has started one refresh attempt if it is a hit and none
\* otherwise, so the attempts are as many as the hits.
C6_OneRefreshPerHit ==
  /\ \A r \in Reads : rd[r].refreshes = IF rd[r].xcache = "HIT" THEN 1 ELSE 0
  /\ log.refresh = Cardinality({r \in Reads : rd[r].xcache = "HIT"})

C6_Witness ==
  /\ \A r \in Reads : rd[r].xcache = "HIT" /\ ~rd[r].solo
  /\ log.refresh = NumReads

\* C7 as stated: once the refresh of a hit is over, the entry holds the
\* leaderboard recomputed from the store, with CACHE_DURATION seconds to live.
C7_RefreshOverwritesEntry ==
  [][\A r \in Reads : HitStep(r) =>
        \E tie \in {"asc", "desc"} :
          cache' = SetEx(Stringify(ResponseData(Find(Collection(db), tie))),
                         CACHE_DURATION)]_vars

\* C8 as stated: a submission whose record was saved is answered 201 with
\* the record as submitted.
C8_SavedSubmissionAnswers201 ==
  \A w \in Writes :
    (wr[w].pc = "done" /\ wr[w].saved)
      => /\ wr[w].status = 201
         /\ wr[w].body.name = wr[w].reqBody.name
         /\ wr[w].body.verdict = wr[w].reqBody.verdict
         /\ wr[w].body.score = wr[w].reqBody.score

\* C9: a read whose store query failed is answered 500, without an X-Cache
\* header, and has issued no cache write.
C9_FindFailurePropagates ==
  \A r \in Reads :
    (Done(r) /\ rd[r].findFailed)
      => rd[r].status = 500 /\ rd[r].xcache = "" /\ rd[r].sets = 0

C9_Witness ==
  \E r \in Reads : Done(r) /\ rd[r].findFailed /\ rd[r].gets = 1 /\ ~rd[r].bypass

\* C10 as stated: the cached payload has at most 100 entries, each scoring
\* strictly more than the next.
C10_CachedStrictlyDescending ==
  cache.kind = "json" =>
    /\ Len(Parse(cache.text).data) <= 100
    /\ StrictlyDescending(Parse(cache.text).data)

\* C10 amended: the cached payload has at most 100 entries, none scoring
\* less than the next (equal scores stand next to each other).
C10_CachedDescending ==
  cache.kind = "json" =>
    /\ Len(Parse(cache.text).data) <= 100
    /\ Descending(Parse(cache.text).data)

C10_Witness ==
  /\ cache.kind = "json"
  /\ Len(Parse(cache.text).data) = 100
  /\ Len(Collection(db)) > 100
  /\ ~StrictlyDescending(Parse(cache.text).data)

\* C11: a leaderboard entry in the cache holds the first 100 documents by
\* score of the collection as it was at some earlier moment, every cached
\* id being the _id of a persisted document.
C11_CacheIsStoreSnapshot ==
  cache.kind = "json" =>
    LET payload == Parse(cache.text)
    IN  /\ FromStore(payload)
        /\ \A i \in 1..Len(payload.data) : payload.data[i] \in 1..Len(Collection(db))

\* the cache holds a snapshot that a read took before a submission that
\* belongs on the leaderboard was saved, and cached after it was saved
C11_Witness ==
  /\ cache.kind = "json"
  /\ \E w \in Writes :
       /\ wr[w].saved /\ wr[w].staleSet
       /\ wr[w].doc.score > Filler(NumFillers).score
       /\ \A i \in 1..Len(Parse(cache.text).data) : Parse(cache.text).data[i] # wr[w].doc.id

\* the step in which read r is answered 200
Answers200(r) == rd[r].pc # "done" /\ rd'[r].pc = "done" /\ rd'[r].status = 200

\* C12: a 200 answer of GET /api/leaderboard carries X-Cache HIT exactly when
\* its body is the text read from the cache and the request queried no
\* document store, and MISS exactly when its body was computed from the
\* document store during the request.
C12_HeaderTellsSource ==
  [][\A r \in Reads : Answers200(r) =>
       \/ /\ rd'[r].xcache = "HIT"
          /\ rd[r].pc = "get" /\ cache.kind = "json"
          /\ rd'[r].body = cache.text
          /\ rd'[r].finds = 0
       \/ /\ rd'[r].xcache = "MISS"
          /\ rd[r].pc \in {"find", "setEx"}
          /\ rd'[r].finds = 1
          /\ rd[r].pc = "setEx" => rd'[r].body = Stringify(rd[r].responseData)
          /\ FromStore(Parse(rd'[r].body))]_vars

\* one read was answered from the cache, another from the document store
\* after it had cached its payload
C12_Witness ==
  \E h, m \in Reads :
    /\ Done(h) /\ rd[h].status = 200 /\ rd[h].xcache = "HIT"
    /\ Done(m) /\ rd[m].status = 200 /\ rd[m].xcache = "MISS" /\ rd[m].sets = 1

\* C13 as stated needs a background refresh that reads the document store
\* and later writes what it read into the cache, so that it can read before a
\* submission is saved and write after that submission's delete: the refresh
\* a cache hit starts gets as far as its read of the document store, that is,
\* the hit's step logs no 'Background refresh failed'.
C13_RefreshReadsStore ==
  [][\A r \in Reads : HitStep(r) => log'.refresh = log.refresh]_vars

\* C14: whatever bodies are submitted, every entry a leaderboard read returns
\* has a name, a defined score and the verdict NAUGHTY or NICE, and a
\* submission lacking a required field or carrying another verdict is
\* rejected and persists nothing.
C14_EntriesValidBadBodiesRejected ==
  /\ \A r \in Reads : (Done(r) /\ rd[r].status = 200) =>
       \A i \in 1..Len(Parse(rd[r].body)) :
         LET doc == Collection(db)[Parse(rd[r].body)[i]]
         IN  /\ doc.name # Absent
             /\ doc.score # NoScore
             /\ doc.verdict \in {"NAUGHTY", "NICE"}
  /\ \A w \in Writes : (wr[w].pc = "done" /\ ~Validates(wr[w].reqBody)) =>
       /\ wr[w].status # 201
       /\ ~wr[w].saved
       /\ \A i \in 1..Len(db) : db[i] # wr[w].doc

\* C15: every GET /api/questions request ends answered 200 with the static
\* question set, whatever the cache store and the document store do: a
\* request that is no longer waiting for the reply to its setEx has been
\* answered 200 with the question set.
C15_QuestionsAnswered200 ==
  \A q \in Questions : qs[q].pc \notin {"idle", "setEx"} =>
    /\ qs[q].pc = "done"
    /\ qs[q].status = 200
    /\ Parse(qs[q].body).data = questions

====
